---- MODULE Spec2Model ----
(***************************************************************************)
(* Model of orchestrator.py: CacheManager (a bounded cache with a          *)
(* time-to-live), MultiCloudOrchestrator._validate_provider_credentials,   *)
(* the tenacity retry policy of retry_config, and get_resource_details     *)
(* with its functools.lru_cache memo.                                      *)
(***************************************************************************)
EXTENDS Integers, Sequences, FiniteSets, TLC

VARIABLES
    cache,        \* CacheManager.cache: the dict, in insertion order, of entries
    now,          \* the clock read by datetime.now()
    lastOp,       \* history: the last direct CacheManager.get / set call
    lru,          \* the memo of @lru_cache on get_resource_details, LRU first
    credentials,  \* MultiCloudOrchestrator.credentials
    clients,      \* MultiCloudOrchestrator.clients (providers that have a client)
    pc,           \* per caller: position inside get_resource_details
    call,         \* per caller: the call in progress (or the last one)
    log,          \* per caller: outcomes of the attempts of the retried fetch
    ret,          \* per caller: how the last call ended
    lastStore,    \* history: per cache key, the last result stored and when
    vres,         \* result of the last _validate_provider_credentials call
    waits,        \* history, per caller: the sleeps of the retry in progress
    steps,        \* history, per caller: the steps the call has taken
    initc,        \* the _initialize_clients call: its runs and how it ended
    lock,         \* CacheManager.lock: the thread holding it, or "free"
    pending       \* per thread: the CacheManager call it is inside

\* what only _initialize_clients and the threads on the lock change
aux == <<initc, lock, pending>>

vars == <<cache, now, lastOp, lru, credentials, clients, pc, call, log, ret,
          lastStore, vres, waits, steps, aux>>

(***************************************************************************)
(* Bounds of the model.  max_size, ttl and lru_maxsize stand for the       *)
(* source's 1000 entries, 300 seconds and 128 memo slots, scaled down      *)
(* with their order kept (lru_maxsize < max_size).                         *)
(***************************************************************************)
max_size == 2
ttl == 8
lru_maxsize == 1
MaxTime == 12

(* retry_config: stop_after_attempt(3), wait_exponential(1, min=4, max=10) *)
MaxAttempts == 3
Multiplier == 1
WaitMin == 4
WaitMax == 10

None == "None"

Min2(a, b) == IF a < b THEN a ELSE b
Max2(a, b) == IF a > b THEN a ELSE b

RECURSIVE Pow2(_)
Pow2(n) == IF n <= 0 THEN 1 ELSE 2 * Pow2(n - 1)

Range(s) == {s[i] : i \in DOMAIN s}

RemoveAt(s, i) == [j \in 1..(Len(s) - 1) |-> IF j < i THEN s[j] ELSE s[j + 1]]

(***************************************************************************)
(* CloudProvider, resource ids and cache keys                              *)
(***************************************************************************)
AWS == "AWS"
AZURE == "AZURE"
GCP == "GCP"
ORACLE == "ORACLE"
IBM == "IBM"
CloudProvider == {AWS, AZURE, GCP, ORACLE, IBM}

\* str(provider) as the f-string of cache_key renders an Enum member
ProviderStr(p) == <<"CloudProvider.", p>>

\* resource ids are strings, modelled as sequences of characters
StartsWith(s, prefix) ==
    /\ Len(s) >= Len(prefix)
    /\ \A i \in 1..Len(prefix) : s[i] = prefix[i]

\* cache_key = f"{provider}:{resource_id}"
CacheKey(p, rid) == ProviderStr(p) \o <<":">> \o rid

Requests ==
    { <<AWS, <<"i", "-", "1">> >>,
      <<AWS, <<"v", "1">> >>,
      <<AZURE, <<"v", "1">> >>,
      <<IBM, <<"i", "-", "1">> >> }

Keys == {CacheKey(r[1], r[2]) : r \in Requests}

DescribeResults == {"inst_a", "inst_b"}

(***************************************************************************)
(* CacheManager                                                            *)
(***************************************************************************)
HasKey(c, key) == \E i \in DOMAIN c : c[i].key = key

IndexOf(c, key) == CHOOSE i \in DOMAIN c : c[i].key = key

Entry(key, value, timestamp) ==
    [key |-> key, value |-> value, timestamp |-> timestamp]

\* Fresh with the comparison off by one (<= for <)
FreshInclusive(timestamp, t) == t - timestamp <= ttl

\* datetime.now() - timestamp < timedelta(seconds=self.ttl)
Fresh(timestamp, t) == t - timestamp < ttl

\* CacheGet as a sweep: a lookup drops every expired entry it finds
CacheGetSweeping(c, key, t) ==
    LET live(e) == Fresh(e.timestamp, t)
        kept == SelectSeq(c, live)
    IN
    IF HasKey(kept, key)
    THEN [cache |-> kept, value |-> kept[IndexOf(kept, key)].value, hit |-> TRUE]
    ELSE [cache |-> kept, value |-> None, hit |-> FALSE]

\* CacheManager.get: the dict afterwards, the value returned, and whether it
\* was returned by line 47 (a stored value) or by line 50 (absent)
CacheGet(c, key, t) ==
    IF HasKey(c, key)
    THEN LET i == IndexOf(c, key) IN
         IF Fresh(c[i].timestamp, t)
         THEN [cache |-> c, value |-> c[i].value, hit |-> TRUE]
         ELSE [cache |-> RemoveAt(c, i), value |-> None, hit |-> FALSE]
    ELSE [cache |-> c, value |-> None, hit |-> FALSE]

\* OldestIndex with max() for min(): the newest entry
NewestIndex(c) ==
    CHOOSE i \in DOMAIN c : \A j \in DOMAIN c : c[i].timestamp >= c[j].timestamp

\* min(self.cache.keys(), key=lambda k: self.cache[k][1]): the first key, in
\* the dict's order, whose timestamp is the least
OldestIndex(c) ==
    CHOOSE i \in DOMAIN c :
        /\ \A j \in DOMAIN c : c[i].timestamp <= c[j].timestamp
        /\ \A j \in 1..(i - 1) : c[j].timestamp > c[i].timestamp

\* Evict with the comparison > for >=: a full cache is not trimmed
EvictLate(c) == IF Len(c) > max_size THEN {OldestIndex(c)} ELSE {}

\* the capacity branch of CacheManager.set: the indices it deletes
Evict(c) == IF Len(c) >= max_size THEN {OldestIndex(c)} ELSE {}

\* Store that keeps the timestamp of the entry it overwrites
StoreKeepingTimestamp(c, key, value, t) ==
    IF HasKey(c, key)
    THEN [c EXCEPT ![IndexOf(c, key)] = Entry(key, value, @.timestamp)]
    ELSE Append(c, Entry(key, value, t))

\* Store that always adds an entry, also for a key that has one
StoreAppending(c, key, value, t) == Append(c, Entry(key, value, t))

\* self.cache[key] = (value, datetime.now()): an existing key keeps its place
Store(c, key, value, t) ==
    IF HasKey(c, key)
    THEN [c EXCEPT ![IndexOf(c, key)] = Entry(key, value, t)]
    ELSE Append(c, Entry(key, value, t))

\* CacheManager.set: the dict afterwards and the entries it evicted
CacheSet(c, key, value, t) ==
    LET gone == Evict(c)
        kept == SelectSeq([i \in DOMAIN c |-> [e |-> c[i], i |-> i]],
                          LAMBDA x : x.i \notin gone)
        c1 == [i \in DOMAIN kept |-> kept[i].e]
    IN [cache |-> Store(c1, key, value, t), evicted |-> {c[i] : i \in gone}]

NoOp == [op |-> "none", key |-> <<>>, before |-> <<>>, value |-> None,
         hit |-> FALSE, evicted |-> {}, at |-> 0]

GetOp(key, r, c, t) ==
    [op |-> "get", key |-> key, before |-> c, value |-> r.value,
     hit |-> r.hit, evicted |-> {}, at |-> t]

SetOp(key, value, r, c, t) ==
    [op |-> "set", key |-> key, before |-> c, value |-> value,
     hit |-> FALSE, evicted |-> r.evicted, at |-> t]

(***************************************************************************)
(* _validate_provider_credentials                                          *)
(***************************************************************************)
required_fields ==
    [p \in CloudProvider |->
        CASE p = AWS -> <<"access_key", "secret_key", "region">>
          [] p = AZURE -> <<"tenant_id", "client_id", "client_secret",
                            "subscription_id">>
          [] p = GCP -> <<"project_id", "key_file">>
          [] p = ORACLE -> <<"user", "private_key", "tenancy", "region">>
          [] p = IBM -> <<"api_key">>]

\* self.credentials.get(provider, {}): the keys of the provider's record
SuppliedFields(creds, p) == IF p \in DOMAIN creds THEN DOMAIN creds[p] ELSE {}

\* MissingFields that also counts a blank value as missing
MissingOrBlank(creds, p) ==
    SelectSeq(required_fields[p],
              LAMBDA f : \/ f \notin SuppliedFields(creds, p)
                         \/ creds[p][f] = "")

\* [field for field in required_fields[provider] if field not in record]
MissingFields(creds, p) ==
    SelectSeq(required_fields[p], LAMBDA f : f \notin SuppliedFields(creds, p))

\* the outcome of _validate_provider_credentials(provider)
Validate(creds, p) ==
    IF p \notin DOMAIN required_fields
    THEN [provider |-> p, ok |-> FALSE, error |-> "Unsupported provider",
          missing |-> <<>>]
    ELSE LET missing_fields == MissingFields(creds, p) IN
         IF missing_fields # <<>>
         THEN [provider |-> p, ok |-> FALSE,
               error |-> "Missing required fields", missing |-> missing_fields]
         ELSE [provider |-> p, ok |-> TRUE, error |-> "none", missing |-> <<>>]

NoValidation == [provider |-> "none", ok |-> TRUE, error |-> "none",
                 missing |-> <<>>]

(***************************************************************************)
(* retry_config and the body of _fetch_resource_details                    *)
(***************************************************************************)
NoExc == [type |-> "none", attempt |-> 0, cause |-> "none"]

\* an exception raised by attempt n of the wrapped function
Raised(type, n) == [type |-> type, attempt |-> n, cause |-> "none"]

Ok(value) == [ok |-> TRUE, value |-> value, exc |-> NoExc]
Fail(exc) == [ok |-> FALSE, value |-> None, exc |-> exc]

\* one run (attempt n) of the body of _fetch_resource_details: what it can
\* return or raise.  cl: the providers self.clients has an entry for.
FetchBody(p, rid, cl, n) ==
    IF p = AWS /\ StartsWith(rid, <<"i", "-">>)
    THEN IF p \in cl
         THEN {Ok(v) : v \in DescribeResults} \cup {Fail(Raised("ClientError", n))}
         ELSE {Fail(Raised("KeyError", n))}
    ELSE IF p \in {AZURE, GCP, ORACLE, IBM}
    THEN {Ok(None)}
    ELSE {Fail(Raised("NotImplementedError", n))}

\* Stop that lets one attempt too many through (> for >=)
StopLate(n) == n > MaxAttempts

\* stop_after_attempt(3)
Stop(n) == n >= MaxAttempts

\* Wait without the lower clamp
WaitUnclamped(n) == Min2(Multiplier * Pow2(n - 1), WaitMax)

\* wait_exponential(multiplier=1, min=4, max=10) after attempt n
Wait(n) == Max2(Max2(0, WaitMin), Min2(Multiplier * Pow2(n - 1), WaitMax))

\* what retry() raises when the policy stops after a failed attempt:
\* retry_config sets no reraise, so tenacity raises RetryError from the attempt
Exhausted(exc) == [type |-> "RetryError", attempt |-> exc.attempt,
                   cause |-> exc.type]

(***************************************************************************)
(* @lru_cache(maxsize=128) on get_resource_details                         *)
(***************************************************************************)
MemoHas(l, k) == \E i \in DOMAIN l : l[i].key = k

MemoIndex(l, k) == CHOOSE i \in DOMAIN l : l[i].key = k

\* a hit moves the entry to the most-recently-used end
MemoTouch(l, k) ==
    LET i == MemoIndex(l, k) IN Append(RemoveAt(l, i), l[i])

\* a returned result is stored; the least-recently-used entry goes when full
MemoStore(l, k, v) ==
    IF MemoHas(l, k) THEN l
    ELSE IF lru_maxsize = 0 THEN l
    ELSE IF Len(l) >= lru_maxsize
    THEN Append(Tail(l), [key |-> k, value |-> v])
    ELSE Append(l, [key |-> k, value |-> v])

\* if cached_data: (the truth value of what CacheManager.get returned)
Truthy(v) == v # None
(***************************************************************************)
(* State after construction                                                *)
(***************************************************************************)
AllThreads == {"t1", "t2"}
Threads == {"t1"}

NoStore == [has |-> FALSE, value |-> None, at |-> 0]

NoCall == [provider |-> "none", resource_id |-> <<>>, at |-> 0,
           prior |-> NoStore, held |-> FALSE, cacheAtFetch |-> <<>>,
           direct |-> FALSE]

NoRet == [status |-> "none", value |-> None, exc |-> NoExc, via |-> "none"]

\* _initialize_clients has not been called: no run of its body yet
NotInitialized == [status |-> "none", order |-> <<>>, runs |-> <<>>,
                   exc |-> NoExc]

NoPending == [op |-> "none", key |-> <<>>, value |-> None, seen |-> <<>>]

Secret == "s3cr3t"
SecretValues == {"", Secret}

Full(p) == [f \in Range(required_fields[p]) |-> Secret]

\* the credential / client registries are written once, before any call
Configurations ==
    { [credentials |-> (AWS :> Full(AWS)) @@ (AZURE :> Full(AZURE))
                       @@ (IBM :> Full(IBM)),
       clients |-> {AWS}],
      [credentials |-> (AWS :> [f \in {"access_key", "secret_key"} |-> Secret]),
       clients |-> {}] }

Constructed ==
    /\ cache = <<>>
    /\ now = 0
    /\ lastOp = NoOp
    /\ lru = <<>>
    /\ pc = [t \in AllThreads |-> "idle"]
    /\ call = [t \in AllThreads |-> NoCall]
    /\ log = [t \in AllThreads |-> <<>>]
    /\ ret = [t \in AllThreads |-> NoRet]
    /\ lastStore = [k \in Keys |-> NoStore]
    /\ vres = NoValidation
    /\ waits = [t \in AllThreads |-> <<>>]
    /\ steps = [t \in AllThreads |-> <<>>]
    /\ initc = NotInitialized
    /\ lock = "free"
    /\ pending = [t \in AllThreads |-> NoPending]

Init ==
    /\ Constructed
    /\ \E cfg \in Configurations :
          /\ credentials = cfg.credentials
          /\ clients = cfg.clients

(***************************************************************************)
(* The clock                                                               *)
(***************************************************************************)
TickSteps == {WaitMin, ttl}

Tick ==
    /\ \E d \in TickSteps :
          /\ now + d <= MaxTime
          /\ now' = now + d
    /\ UNCHANGED <<cache, lastOp, lru, credentials, clients, pc, call, log, ret,
                   lastStore, vres, waits, steps, aux>>

(***************************************************************************)
(* CacheManager.get and CacheManager.set, called directly                  *)
(***************************************************************************)
get(key) ==
    LET r == CacheGet(cache, key, now) IN
    /\ cache' = r.cache
    /\ lastOp' = GetOp(key, r, cache, now)
    /\ UNCHANGED <<now, lru, credentials, clients, pc, call, log, ret,
                   lastStore, vres, waits, steps, aux>>

set(key, value) ==
    LET r == CacheSet(cache, key, value, now) IN
    /\ cache' = r.cache
    /\ lastOp' = SetOp(key, value, r, cache, now)
    /\ UNCHANGED <<now, lru, credentials, clients, pc, call, log, ret,
                   lastStore, vres, waits, steps, aux>>

CacheInit ==
    /\ Constructed
    /\ credentials = <<>>
    /\ clients = {}

\* keys and values of the direct calls
DirectKeys == {CacheKey(r[1], r[2]) : r \in {q \in Requests : q[1] # IBM}}
DirectValues == {"inst_a", None}

CacheNext ==
    \/ \E key \in DirectKeys : get(key)
    \/ \E key \in DirectKeys, value \in DirectValues : set(key, value)
    \/ Tick

SpecCache == CacheInit /\ [][CacheNext]_vars
(***************************************************************************)
(* get_resource_details, one caller t                                      *)
(***************************************************************************)
Returned(value, via) ==
    [status |-> "returned", value |-> value, exc |-> NoExc, via |-> via]

Raise(exc) ==
    [status |-> "raised", value |-> None, exc |-> exc, via |-> "fetch"]

Running == [status |-> "running", value |-> None, exc |-> NoExc, via |-> "none"]

\* the result the memo of lru_cache holds for the arguments, if any
MemoLookup(l, k) ==
    IF MemoHas(l, k)
    THEN [hit |-> TRUE, value |-> l[MemoIndex(l, k)].value, lru |-> MemoTouch(l, k)]
    ELSE [hit |-> FALSE, value |-> None, lru |-> l]

\* lines 98-104: the call enters through the memo; on a memo miss the body
\* runs: cache_manager.get(cache_key) and the test "if cached_data"
get_resource_details(t, p, rid) ==
    LET key == CacheKey(p, rid)
        m == MemoLookup(lru, <<p, rid>>)
        g == CacheGet(cache, key, now)
        started == [provider |-> p, resource_id |-> rid, at |-> now,
                    prior |-> lastStore[key],
                    held |-> HasKey(cache, key) /\ g.hit,
                    cacheAtFetch |-> g.cache, direct |-> FALSE]
    IN
    /\ pc[t] = "idle"
    /\ call' = [call EXCEPT ![t] = started]
    /\ log' = [log EXCEPT ![t] = <<>>]
    /\ waits' = [waits EXCEPT ![t] = <<>>]
    /\ IF m.hit
       THEN /\ lru' = m.lru
            /\ ret' = [ret EXCEPT ![t] = Returned(m.value, "memo")]
            /\ steps' = [steps EXCEPT ![t] = <<>>]
            /\ UNCHANGED <<cache, pc>>
       ELSE /\ cache' = g.cache
            /\ steps' = [steps EXCEPT ![t] = <<"lookup">>]
            /\ IF Truthy(g.value)
               THEN /\ lru' = MemoStore(lru, <<p, rid>>, g.value)
                    /\ ret' = [ret EXCEPT ![t] = Returned(g.value, "cache")]
                    /\ UNCHANGED pc
               ELSE /\ pc' = [pc EXCEPT ![t] = "fetch"]
                    /\ ret' = [ret EXCEPT ![t] = Running]
                    /\ UNCHANGED lru
    /\ UNCHANGED <<now, lastOp, credentials, clients, lastStore, vres, aux>>

\* _fetch_resource_details called on its own, not from get_resource_details
fetch_resource_details(t, p, rid) ==
    /\ pc[t] = "idle"
    /\ call' = [call EXCEPT ![t] =
                   [provider |-> p, resource_id |-> rid, at |-> now,
                    prior |-> lastStore[CacheKey(p, rid)], held |-> FALSE,
                    cacheAtFetch |-> cache, direct |-> TRUE]]
    /\ log' = [log EXCEPT ![t] = <<>>]
    /\ ret' = [ret EXCEPT ![t] = Running]
    /\ pc' = [pc EXCEPT ![t] = "fetch"]
    /\ waits' = [waits EXCEPT ![t] = <<>>]
    /\ steps' = [steps EXCEPT ![t] = <<>>]
    /\ UNCHANGED <<cache, now, lastOp, lru, credentials, clients, lastStore,
                   vres, aux>>

\* Attempt that, when the retries are used up, stores an empty result under
\* the key before the failure goes to the caller
AttemptCachingFailure(t) ==
    LET n == Len(log[t]) + 1
        key == CacheKey(call[t].provider, call[t].resource_id)
    IN
    /\ pc[t] = "fetch"
    /\ steps' = [steps EXCEPT ![t] = IF n = 1 THEN Append(@, "fetch") ELSE @]
    /\ \E o \in FetchBody(call[t].provider, call[t].resource_id, clients, n) :
          /\ log' = [log EXCEPT ![t] = Append(@, o)]
          /\ IF o.ok /\ call[t].direct
             THEN /\ pc' = [pc EXCEPT ![t] = "idle"]
                  /\ ret' = [ret EXCEPT ![t] = Returned(o.value, "fetch")]
                  /\ UNCHANGED cache
             ELSE IF o.ok
             THEN /\ pc' = [pc EXCEPT ![t] = "populate"]
                  /\ UNCHANGED <<ret, cache>>
             ELSE IF Stop(n)
             THEN /\ pc' = [pc EXCEPT ![t] = "idle"]
                  /\ ret' = [ret EXCEPT ![t] = Raise(Exhausted(o.exc))]
                  /\ cache' = CacheSet(cache, key, None, now).cache
             ELSE /\ pc' = [pc EXCEPT ![t] = "backoff"]
                  /\ UNCHANGED <<ret, cache>>
    /\ UNCHANGED <<now, lastOp, lru, credentials, clients, call, lastStore,
                   vres, waits, aux>>

\* one attempt of the retried _fetch_resource_details (lines 111-129): the
\* body runs; a result ends the retry and goes to the caller (line 107 of
\* get_resource_details, or a direct caller); a failure is logged and
\* re-raised to the policy, which stops after the third attempt or waits
\* and tries again
Attempt(t) ==
    LET n == Len(log[t]) + 1 IN
    /\ pc[t] = "fetch"
    /\ steps' = [steps EXCEPT ![t] = IF n = 1 THEN Append(@, "fetch") ELSE @]
    /\ \E o \in FetchBody(call[t].provider, call[t].resource_id, clients, n) :
          /\ log' = [log EXCEPT ![t] = Append(@, o)]
          /\ IF o.ok /\ call[t].direct
             THEN /\ pc' = [pc EXCEPT ![t] = "idle"]
                  /\ ret' = [ret EXCEPT ![t] = Returned(o.value, "fetch")]
             ELSE IF o.ok
             THEN /\ pc' = [pc EXCEPT ![t] = "populate"]
                  /\ UNCHANGED ret
             ELSE IF Stop(n)
             THEN /\ pc' = [pc EXCEPT ![t] = "idle"]
                  /\ ret' = [ret EXCEPT ![t] = Raise(Exhausted(o.exc))]
             ELSE /\ pc' = [pc EXCEPT ![t] = "backoff"]
                  /\ UNCHANGED ret
    /\ UNCHANGED <<cache, now, lastOp, lru, credentials, clients, call,
                   lastStore, vres, waits, aux>>

\* the sleep between two attempts; the clock stops at the model's horizon
Backoff(t) ==
    /\ pc[t] = "backoff"
    /\ now' = Min2(now + Wait(Len(log[t])), MaxTime)
    /\ waits' = [waits EXCEPT ![t] = Append(@, Wait(Len(log[t])))]
    /\ pc' = [pc EXCEPT ![t] = "fetch"]
    /\ UNCHANGED <<cache, lastOp, lru, credentials, clients, call, log, ret,
                   lastStore, vres, steps, aux>>

\* lines 107-109: cache_manager.set(cache_key, details); return details
\* (and the memo keeps what the call returned)
Populate(t) ==
    LET p == call[t].provider
        rid == call[t].resource_id
        key == CacheKey(p, rid)
        details == log[t][Len(log[t])].value
        r == CacheSet(cache, key, details, now)
    IN
    /\ pc[t] = "populate"
    /\ cache' = r.cache
    /\ lastStore' = [lastStore EXCEPT ![key] =
                        [has |-> TRUE, value |-> details, at |-> now]]
    /\ lru' = MemoStore(lru, <<p, rid>>, details)
    /\ ret' = [ret EXCEPT ![t] = Returned(details, "fetch")]
    /\ pc' = [pc EXCEPT ![t] = "idle"]
    /\ steps' = [steps EXCEPT ![t] = Append(@, "populate")]
    /\ UNCHANGED <<now, lastOp, credentials, clients, call, log, vres, waits,
                   aux>>

Next ==
    \/ \E t \in Threads, r \in Requests : get_resource_details(t, r[1], r[2])
    \/ \E t \in Threads : Attempt(t)
    \/ \E t \in Threads : Backoff(t)
    \/ \E t \in Threads : Populate(t)
    \/ Tick

Spec == Init /\ [][Next]_vars

(***************************************************************************)
(* The retry policy alone: _fetch_resource_details called directly.  A     *)
(* caller inside the retry keeps running, nothing suspends it.             *)
(***************************************************************************)
RetryNext ==
    \/ \E t \in Threads, r \in Requests : fetch_resource_details(t, r[1], r[2])
    \/ \E t \in Threads : Attempt(t)
    \/ \E t \in Threads : Backoff(t)

SpecRetry ==
    /\ Init
    /\ [][RetryNext]_vars
    /\ \A t \in Threads : WF_vars(Attempt(t) \/ Backoff(t))
(***************************************************************************)
(* _validate_provider_credentials alone, over credential records           *)
(***************************************************************************)
validate_provider_credentials(p) ==
    /\ vres' = Validate(credentials, p)
    /\ UNCHANGED <<cache, now, lastOp, lru, credentials, clients, pc, call, log,
                   ret, lastStore, waits, steps, aux>>

\* the field names a record may hold: the provider's own and a foreign one
FieldPool(p) == Range(required_fields[p]) \cup {"token"}

CredentialRecords(p) ==
    UNION {[S -> SecretValues] : S \in SUBSET FieldPool(p)}

ValidateInit ==
    /\ Constructed
    /\ clients = {}
    /\ \/ credentials = <<>>
       \/ \E p \in CloudProvider :
             \E rec \in CredentialRecords(p) : credentials = (p :> rec)

ValidateNext == \E p \in CloudProvider : validate_provider_credentials(p)

SpecValidate == ValidateInit /\ [][ValidateNext]_vars
(***************************************************************************)
(* _initialize_clients (lines 71-79), wrapped by the same retry policy     *)
(***************************************************************************)
\* the orders a dict with the keys S can iterate in
Orders(S) ==
    {o \in [1..Cardinality(S) -> S] : \A x \in S : \E i \in DOMAIN o : o[i] = x}

\* the first provider of the order whose validation raises, 0 if none does
FirstInvalid(creds, order) ==
    IF \E i \in DOMAIN order : ~Validate(creds, order[i]).ok
    THEN CHOOSE i \in DOMAIN order :
             /\ ~Validate(creds, order[i]).ok
             /\ \A j \in 1..(i - 1) : Validate(creds, order[j]).ok
    ELSE 0

\* InitBody that logs a failure and goes on with the next provider, raising
\* the first failure after the loop
InitBodyBestEffort(creds, order, n) ==
    LET k == FirstInvalid(creds, order) IN
    IF k = 0
    THEN [ok |-> TRUE, visited |-> order, failed |-> "none", exc |-> NoExc]
    ELSE [ok |-> FALSE, visited |-> order, failed |-> order[k],
          exc |-> Raised("ValueError", n)]

\* one run (attempt n) of the body of _initialize_clients: the providers it
\* validated, in order, and the exception that left the loop, if any
InitBody(creds, order, n) ==
    LET k == FirstInvalid(creds, order) IN
    IF k = 0
    THEN [ok |-> TRUE, visited |-> order, failed |-> "none", exc |-> NoExc]
    ELSE [ok |-> FALSE, visited |-> SubSeq(order, 1, k), failed |-> order[k],
          exc |-> Raised("ValueError", n)]

\* the call: self.credentials iterates in the order its keys were inserted
initialize_clients(order) ==
    /\ initc.status = "none"
    /\ initc' = [status |-> "running", order |-> order, runs |-> <<>>,
                 exc |-> NoExc]
    /\ UNCHANGED <<cache, now, lastOp, lru, credentials, clients, pc, call, log,
                   ret, lastStore, vres, waits, steps, lock, pending>>

\* one run of the body under the retry policy
InitAttempt ==
    LET n == Len(initc.runs) + 1
        r == InitBody(credentials, initc.order, n)
    IN
    /\ initc.status = "running"
    /\ initc' = [initc EXCEPT
                   !.runs = Append(@, r),
                   !.status = IF r.ok THEN "done"
                              ELSE IF Stop(n) THEN "raised" ELSE "backoff",
                   !.exc = IF ~r.ok /\ Stop(n) THEN Exhausted(r.exc) ELSE NoExc]
    /\ UNCHANGED <<cache, now, lastOp, lru, credentials, clients, pc, call, log,
                   ret, lastStore, vres, waits, steps, lock, pending>>

\* the sleep between two runs
InitBackoff ==
    /\ initc.status = "backoff"
    /\ now' = Min2(now + Wait(Len(initc.runs)), MaxTime)
    /\ initc' = [initc EXCEPT !.status = "running"]
    /\ UNCHANGED <<cache, lastOp, lru, credentials, clients, pc, call, log,
                   ret, lastStore, vres, waits, steps, lock, pending>>

\* a record of p lacking its last required field
Partial(p) ==
    [f \in Range(SubSeq(required_fields[p], 1, Len(required_fields[p]) - 1))
        |-> Secret]

InitProviders == {AWS, GCP, IBM}

InitializeInit ==
    /\ Constructed
    /\ clients = {}
    /\ credentials \in [InitProviders -> UNION {{Full(p), Partial(p)} :
                                                 p \in InitProviders}]
    /\ \A p \in InitProviders : credentials[p] \in {Full(p), Partial(p)}

InitializeNext ==
    \/ \E order \in Orders(DOMAIN credentials) : initialize_clients(order)
    \/ InitAttempt
    \/ InitBackoff

SpecInitialize == InitializeInit /\ [][InitializeNext]_vars

(***************************************************************************)
(* CacheManager called from several threads: every method body runs        *)
(* inside "with self._lock" (lines 43 and 53)                              *)
(***************************************************************************)
\* a lock that never blocks
LockIgnored(l) == TRUE

\* threading.Lock: acquired only while no thread holds it
LockFree(l) == l = "free"

Inside(t) == pending[t].op # "none"

\* get, line 43: the lock is taken
get_enter(t, key) ==
    /\ ~Inside(t)
    /\ LockFree(lock)
    /\ lock' = t
    /\ pending' = [pending EXCEPT ![t] =
                     [op |-> "get", key |-> key, value |-> None, seen |-> cache]]
    /\ UNCHANGED <<cache, now, lastOp, lru, credentials, clients, pc, call, log,
                   ret, lastStore, vres, waits, steps, initc>>

\* get, lines 44-50: the lookup, the lazy removal, and the release
get_locked(t) ==
    /\ pending[t].op = "get"
    /\ cache' = CacheGet(cache, pending[t].key, now).cache
    /\ lock' = "free"
    /\ pending' = [pending EXCEPT ![t] = NoPending]
    /\ UNCHANGED <<now, lastOp, lru, credentials, clients, pc, call, log,
                   ret, lastStore, vres, waits, steps, initc>>

\* set, line 53: the lock is taken
set_enter(t, key, value) ==
    /\ ~Inside(t)
    /\ LockFree(lock)
    /\ lock' = t
    /\ pending' = [pending EXCEPT ![t] =
                     [op |-> "set_evict", key |-> key, value |-> value,
                      seen |-> cache]]
    /\ UNCHANGED <<cache, now, lastOp, lru, credentials, clients, pc, call, log,
                   ret, lastStore, vres, waits, steps, initc>>

\* set, lines 54-56: the capacity branch
set_evict(t) ==
    LET gone == Evict(cache)
        left == IF gone = {} THEN cache
                ELSE RemoveAt(cache, CHOOSE i \in gone : TRUE)
    IN
    /\ pending[t].op = "set_evict"
    /\ cache' = left
    /\ pending' = [pending EXCEPT ![t].op = "set_store", ![t].seen = left]
    /\ UNCHANGED <<now, lastOp, lru, credentials, clients, pc, call, log,
                   ret, lastStore, vres, waits, steps, initc, lock>>

\* set, line 57, and the release
set_store(t) ==
    /\ pending[t].op = "set_store"
    /\ cache' = Store(cache, pending[t].key, pending[t].value, now)
    /\ lock' = "free"
    /\ pending' = [pending EXCEPT ![t] = NoPending]
    /\ UNCHANGED <<now, lastOp, lru, credentials, clients, pc, call, log,
                   ret, lastStore, vres, waits, steps, initc>>

LockNext ==
    \/ \E t \in AllThreads, key \in DirectKeys : get_enter(t, key)
    \/ \E t \in AllThreads : get_locked(t)
    \/ \E t \in AllThreads, key \in DirectKeys, value \in DirectValues :
          set_enter(t, key, value)
    \/ \E t \in AllThreads : set_evict(t)
    \/ \E t \in AllThreads : set_store(t)
    \/ Tick

SpecLock == CacheInit /\ [][LockNext]_vars

(***************************************************************************)
(* get_resource_details called by two threads on the one orchestrator      *)
(* (line 153): lookup and populate are separate acquisitions of the lock   *)
(***************************************************************************)
\* the first caller asks for either resource, the second for the instance
ConcurrentRequests(t) ==
    IF t = "t1"
    THEN {<<AWS, <<"i", "-", "1">>>>, <<AZURE, <<"v", "1">>>>}
    ELSE {<<AWS, <<"i", "-", "1">>>>}

ConcurrentNext ==
    \/ \E t \in AllThreads : \E r \in ConcurrentRequests(t) :
          get_resource_details(t, r[1], r[2])
    \/ \E t \in AllThreads : Attempt(t)
    \/ \E t \in AllThreads : Backoff(t)
    \/ \E t \in AllThreads : Populate(t)
    \/ Tick

SpecConcurrent == Init /\ [][ConcurrentNext]_vars

(***************************************************************************)
(* Properties                                                              *)
(***************************************************************************)
KeysOf(c) == {c[i].key : i \in DOMAIN c}

\* C1: after any sequence of CacheManager.set and CacheManager.get calls and
\* clock advances, the cache holds at most max_size entries.
C1_CacheNeverExceedsMaxSize == Len(cache) <= max_size

\* a set on a full cache has just evicted an entry and the cache is full again
C1_Witness ==
    /\ lastOp.op = "set"
    /\ Len(lastOp.before) = max_size
    /\ lastOp.key \notin KeysOf(lastOp.before)
    /\ Len(cache) = max_size

\* C2: a set on a cache holding max_size entries or more removes exactly one
\* entry, one whose insertion time is the least of the entries present; a set
\* on a cache holding fewer removes none.  Apart from the removed entry and
\* the key written, the keys held are the same.
C2_SetEvictsOneOldest ==
    lastOp.op = "set" =>
        /\ Len(lastOp.before) < max_size => lastOp.evicted = {}
        /\ Len(lastOp.before) >= max_size => Cardinality(lastOp.evicted) = 1
        /\ \A e \in lastOp.evicted :
              /\ e \in Range(lastOp.before)
              /\ \A x \in Range(lastOp.before) : e.timestamp <= x.timestamp
        /\ KeysOf(cache) =
              (KeysOf(lastOp.before) \ {e.key : e \in lastOp.evicted})
                  \cup {lastOp.key}

\* a set has evicted an entry while a strictly newer one was present
C2_Witness ==
    /\ lastOp.op = "set"
    /\ \E e \in lastOp.evicted :
          \E x \in Range(lastOp.before) : e.timestamp < x.timestamp

\* C3: get returns a stored value only when the entry of the key is younger
\* than ttl at the time of the get; when ttl or more has elapsed since the
\* key was set, get returns absent.
C3_GetServesOnlyFresh ==
    lastOp.op = "get" =>
        /\ lastOp.hit =>
              \E e \in Range(lastOp.before) :
                  /\ e.key = lastOp.key
                  /\ e.value = lastOp.value
                  /\ lastOp.at - e.timestamp < ttl
        /\ (\A e \in Range(lastOp.before) :
                e.key = lastOp.key => lastOp.at - e.timestamp >= ttl)
              => (~lastOp.hit /\ lastOp.value = None)

\* a get has found the key with an entry exactly ttl old, holding a value
C3_Witness ==
    /\ lastOp.op = "get"
    /\ ~lastOp.hit
    /\ \E e \in Range(lastOp.before) :
          /\ e.key = lastOp.key
          /\ e.value # None
          /\ lastOp.at - e.timestamp = ttl

\* C4: validation fails exactly when a required field of the provider is no
\* key of its record, and then lists exactly the required fields that are
\* not keys of the record; the values of the record play no part.
C4_ValidationIsKeyDifference ==
    vres.provider # "none" =>
        LET p == vres.provider
            required == Range(required_fields[p])
            supplied == IF p \in DOMAIN credentials
                        THEN DOMAIN credentials[p] ELSE {}
        IN /\ vres.ok <=> required \subseteq supplied
           /\ ~vres.ok =>
                 /\ Range(vres.missing) = required \ supplied
                 /\ Len(vres.missing) = Cardinality(required \ supplied)
           /\ vres.ok => vres.missing = <<>>

\* a record with every required key, one of them blank, has been accepted
C4_Witness ==
    /\ vres.provider \in DOMAIN credentials
    /\ vres.ok
    /\ \E f \in Range(required_fields[vres.provider]) :
          credentials[vres.provider][f] = ""
LastAttempt(t) == log[t][Len(log[t])]

\* C5: a get_resource_details call for a provider whose credential record
\* lacks a required field fails with the validation error, and neither looks
\* the cache up nor runs the provider operation.
C5_NoLookupWithoutCredentials ==
    \A t \in Threads :
        (/\ ret[t].status # "none"
         /\ ~call[t].direct
         /\ ~Validate(credentials, call[t].provider).ok)
        => /\ ret[t].status = "raised"
           /\ ret[t].exc.type = "ValueError"
           /\ log[t] = <<>>

\* the state of one caller's retry: at most 3 attempts, none after a success,
\* a value returned is the value of the last attempt, and a failure is
\* delivered only after 3 failed attempts
RetryBounded(t) ==
    /\ Len(log[t]) <= 3
    /\ \A i \in 1..(Len(log[t]) - 1) : ~log[t][i].ok
    /\ ret[t].status = "returned" =>
          /\ Len(log[t]) >= 1
          /\ LastAttempt(t).ok
          /\ ret[t].value = LastAttempt(t).value
    /\ ret[t].status = "raised" =>
          /\ Len(log[t]) = 3
          /\ \A i \in 1..3 : ~log[t][i].ok
    /\ (pc[t] = "idle" /\ log[t] # <<>>) =>
          ret[t].status = (IF LastAttempt(t).ok THEN "returned" ELSE "raised")

\* C6: the retry policy runs the wrapped operation at most 3 times and ends:
\* a success returns its value with no further attempt, two failures and a
\* success make 3 attempts and return the value, three failures make 3
\* attempts and a failure.
C6_RetryAtMostThreeAndEnds ==
    /\ [](\A t \in Threads : RetryBounded(t))
    /\ \A t \in Threads : (pc[t] # "idle") ~> (pc[t] = "idle")

\* two failed attempts, then the third attempt's value has been returned
C6_Witness ==
    \E t \in Threads :
        /\ ret[t].status = "returned"
        /\ Len(log[t]) = 3
        /\ ret[t].value \in DescribeResults

\* C7: when the third attempt fails, the failure delivered to the caller is
\* the failure that attempt raised, not wrapped and not an earlier one.
C7_FinalFailureUnchanged ==
    \A t \in Threads :
        ret[t].status = "raised" => ret[t].exc = LastAttempt(t).exc

\* C8: a get_resource_details call made less than ttl after the result of
\* the same (provider, resource id) was stored, the entry still being held,
\* does not run the provider operation and returns the stored value.
C8_RepeatWithinTtlServedFromCache ==
    \A t \in Threads :
        (/\ ret[t].status # "none"
         /\ ~call[t].direct
         /\ call[t].prior.has
         /\ call[t].at - call[t].prior.at < ttl
         /\ call[t].held)
        => /\ pc[t] = "idle"
           /\ log[t] = <<>>
           /\ ret[t].status = "returned"
           /\ ret[t].value = call[t].prior.value

\* C9: a get_resource_details call made ttl or more after the result of the
\* same (provider, resource id) was stored does not return that stored
\* result: what it returns comes from a new run of the provider operation.
C9_NoResultOlderThanTtl ==
    \A t \in Threads :
        (/\ ret[t].status = "returned"
         /\ ~call[t].direct
         /\ call[t].prior.has
         /\ call[t].at - call[t].prior.at >= ttl)
        => ret[t].via = "fetch"

\* C10: when the retried fetch of a get_resource_details call fails, the
\* call fails, and the cache (and the memo, and the record of what was
\* stored for the key) is as the lookup of that call left it.
C10_FailedFetchCachesNothing ==
    \A t \in Threads :
        (/\ ~call[t].direct
         /\ log[t] # <<>>
         /\ ~LastAttempt(t).ok)
        => /\ cache = call[t].cacheAtFetch
           /\ lastStore[CacheKey(call[t].provider, call[t].resource_id)]
                 = call[t].prior
           /\ ~MemoHas(lru, <<call[t].provider, call[t].resource_id>>)
           /\ pc[t] = "idle" => ret[t].status = "raised"

\* a call has failed after its retries for a key that had a result stored
\* before, with other entries in the cache
C10_Witness ==
    \E t \in Threads :
        /\ ret[t].status = "raised"
        /\ ~call[t].direct
        /\ call[t].prior.has
        /\ cache # <<>>

\* the one provider / resource-kind combination _fetch_resource_details has
\* retrieval logic for (lines 114-116)
Implemented(p, rid) == p = AWS /\ StartsWith(rid, <<"i", "-">>)

\* C11: for a provider / resource kind without retrieval logic the fetch step
\* fails: no attempt ends with a result, the call returns nothing, and no
\* empty result is held in the cache under the key of the call.
C11_UnimplementedFetchFails ==
    \A t \in Threads :
        (/\ call[t].provider # "none"
         /\ ~Implemented(call[t].provider, call[t].resource_id))
        => /\ \A i \in DOMAIN log[t] : ~log[t][i].ok
           /\ ret[t].status # "returned"
           /\ \A e \in Range(cache) :
                 e.key = CacheKey(call[t].provider, call[t].resource_id)
                     => e.value # None

\* C12: a failure that is no provider I/O failure (no retrieval logic, a
\* validation failure) is not retried: the attempt that raised it is the
\* last attempt of the call.
C12_UnsupportedNotRetried ==
    \A t \in Threads :
        \A i \in DOMAIN log[t] :
            log[t][i].exc.type \in {"NotImplementedError", "ValueError"}
                => i = Len(log[t])

\* the providers of the order whose record lacks a required field
Lacking(order) ==
    {i \in DOMAIN order :
        ~(Range(required_fields[order[i]]) \subseteq DOMAIN credentials[order[i]])}

Pipeline == <<"validate", "lookup", "fetch", "populate">>

\* C14: within one get_resource_details call the steps taken are, in this
\* order and with none skipped, validate, cache lookup, fetch, populate: the
\* steps taken so far are always a prefix of that sequence, starting with
\* the validation.
C14_StepsInPipelineOrder ==
    \A t \in Threads :
        (call[t].provider # "none" /\ ~call[t].direct)
            => /\ steps[t] # <<>>
               /\ Len(steps[t]) <= Len(Pipeline)
               /\ steps[t] = SubSeq(Pipeline, 1, Len(steps[t]))

\* C16: the wait between attempt i and attempt i+1 of the retry policy is
\* min(max(base * 2^i, 4), 10) with base 1, so every wait lies in [4, 10]
\* and the waits never decrease from one attempt to the next.
C16_BackoffWaits ==
    \A t \in Threads :
        /\ \A i \in DOMAIN waits[t] :
              /\ waits[t][i] = Min2(Max2(1 * Pow2(i), 4), 10)
              /\ waits[t][i] >= 4
              /\ waits[t][i] <= 10
        /\ \A i \in DOMAIN waits[t] :
              \A j \in DOMAIN waits[t] : i <= j => waits[t][i] <= waits[t][j]

\* a call has slept after its first and after its second attempt
C16_Witness ==
    \E t \in Threads : Len(waits[t]) = 2 /\ Len(log[t]) = 3

\* the entry of key in c is expired at time t
ExpiredIn(c, key, t) ==
    \E e \in Range(c) : e.key = key /\ t - e.timestamp >= ttl

\* C17: CacheManager.get(key) changes the cache only by removing the entry
\* of key, and only when that entry is expired (now - timestamp >= ttl):
\* the entries of all other keys, expired ones included, and an unexpired
\* entry of key with its timestamp, stay as they were.
C17_GetRemovesOnlyExpiredKey ==
    lastOp.op = "get" =>
        LET gone == ExpiredIn(lastOp.before, lastOp.key, lastOp.at)
            stays(e) == ~(e.key = lastOp.key /\ gone)
        IN
        /\ cache = SelectSeq(lastOp.before, stays)
        /\ ~gone => cache = lastOp.before
        /\ \A e \in Range(lastOp.before) :
              e.key # lastOp.key => e \in Range(cache)

\* a get has removed the expired entry of its key and left the expired
\* entry of another key in place
C17_Witness ==
    /\ lastOp.op = "get"
    /\ ExpiredIn(lastOp.before, lastOp.key, lastOp.at)
    /\ ~HasKey(cache, lastOp.key)
    /\ \E e \in Range(cache) : lastOp.at - e.timestamp >= ttl

\* C18: after CacheManager.set(key, v), key is present with value v and
\* the time of the set as its timestamp, so a get(key) at any time before
\* ttl has elapsed, with no other set in between, returns v, whether or
\* not the set evicted an entry.
C18_SetThenGetReturnsValue ==
    lastOp.op = "set" =>
        /\ Cardinality({i \in DOMAIN cache : cache[i].key = lastOp.key}) = 1
        /\ \A e \in Range(cache) :
              e.key = lastOp.key
                  => e.value = lastOp.value /\ e.timestamp = lastOp.at
        /\ \A d \in 0..(ttl - 1) :
              LET r == CacheGet(cache, lastOp.key, lastOp.at + d) IN
              r.hit /\ r.value = lastOp.value /\ r.cache = cache

\* a set that evicted an entry and overwrote nothing has stored its value
C18_Witness ==
    /\ lastOp.op = "set"
    /\ lastOp.evicted # {}
    /\ lastOp.at > 0
    /\ ~HasKey(lastOp.before, lastOp.key)
    /\ HasKey(cache, lastOp.key)

\* C19: CacheManager.set(key, v) on a key already in the cache only
\* overwrites the entry of that key: every entry of another key is still
\* there afterwards, also when the cache held max_size entries.
C19_OverwriteRemovesNoOtherKey ==
    (lastOp.op = "set" /\ HasKey(lastOp.before, lastOp.key)) =>
        /\ \A e \in Range(lastOp.before) :
              e.key # lastOp.key => e \in Range(cache)
        /\ Len(cache) = Len(lastOp.before)

\* C15: under any interleaving of get and set calls of several threads, a
\* call is inside the entry map only while it holds the lock, no two calls
\* are inside at once, the map a call works on is changed by no other call
\* in the meantime, and the cache never holds more than max_size entries.
C15_LockSerializesCalls ==
    /\ \A t \in AllThreads : Inside(t) => (lock = t /\ cache = pending[t].seen)
    /\ \A t, u \in AllThreads : (Inside(t) /\ Inside(u)) => t = u
    /\ (\A t \in AllThreads : ~Inside(t)) => lock = "free"
    /\ Len(cache) <= max_size

\* one thread is between the eviction and the store of a set on a cache
\* that was full, the other one waiting outside
C15_Witness ==
    /\ pending["t2"].op = "set_store"
    /\ Len(cache) = max_size - 1
    /\ ~Inside("t1")
    /\ lock = "t2"
    /\ now > 0

\* the last get_resource_details call of t has returned what it fetched
FetchedAndReturned(t) ==
    /\ pc[t] = "idle"
    /\ ~call[t].direct
    /\ call[t].provider # "none"
    /\ ret[t].status = "returned"
    /\ ret[t].via = "fetch"

\* C20: when two callers have run get_resource_details for the same
\* (provider, resource_id), each missing the cache and fetching, then after
\* both calls have returned the cache holds exactly one entry for that key,
\* its value is the result of one of the two fetches, and the cache holds
\* no more than max_size entries.
C20_ConcurrentMissesLeaveOneEntry ==
    \A t, u \in AllThreads :
        (/\ t # u
         /\ FetchedAndReturned(t)
         /\ FetchedAndReturned(u)
         /\ call[t].provider = call[u].provider
         /\ call[t].resource_id = call[u].resource_id)
        => LET key == CacheKey(call[t].provider, call[t].resource_id) IN
           /\ Cardinality({i \in DOMAIN cache : cache[i].key = key}) = 1
           /\ \A e \in Range(cache) :
                 e.key = key => e.value \in {ret[t].value, ret[u].value}
           /\ Len(cache) <= max_size

\* both callers started before anything was stored under the key, both
\* fetched, with different results, and both have returned
C20_Witness ==
    /\ FetchedAndReturned("t1")
    /\ FetchedAndReturned("t2")
    /\ call["t1"].provider = call["t2"].provider
    /\ call["t1"].resource_id = call["t2"].resource_id
    /\ ~call["t1"].prior.has
    /\ ~call["t2"].prior.has
    /\ ret["t1"].value # ret["t2"].value
====
